---- MODULE Spec2Model ----
(***************************************************************************)
(* State-machine model of Static::StaticArchive                            *)
(* (StaticArchive/Cpp/src/core/static.h++, static.cpp, helpers.h++).       *)
(*                                                                         *)
(* An unsigned integer of n bytes is the tuple of its n base-256 digits,   *)
(* most significant first, as a hexadecimal literal is read: 0xffff as a   *)
(* uint64_t is <<0,0,0,0,0,0,255,255>>.  conv<T> overlays the value with   *)
(* its memory image, so the image is the tuple reversed on a little-endian *)
(* host and the tuple itself on a big-endian one (hostLE).                 *)
(***************************************************************************)
EXTENDS Integers, Sequences, FiniteSets, TLC

VARIABLES
    hostLE,                 \* TRUE: the host stores integers least significant byte first
    exists,                 \* the path names an existing file
    stream,                 \* the std::fstream: [data, pos, fail]
    pc,                     \* "new" (no handle yet), "open" (a handle lives), "aborted"
    mode,                   \* StaticArchive::mode
    sizeMode,               \* StaticArchive::sizeMode, the enumerator's integer value
    fileCount,              \* StaticArchive::fileCount (uint64_t)
    writeCrc,               \* StaticArchive::writeCrc
    closed,                 \* StaticArchive::closed
    generalPurposeField,    \* StaticArchive::generalPurposeField (uint32_t)
    checks,                 \* StaticArchive::checks
    last,                   \* the call that produced this state: op, args, pre, ret, err
    prev,                   \* the op of the call before it
    hdr,                    \* the entry header written last by writeheader, or NoHdr
    appended,               \* what the last append was given and returned, or NoAppend
    nAppends,               \* appends that returned normally since the archive was created
    fresh,                  \* created by a ModeCreate handle and driven by public calls only
    ops                     \* calls made so far

handle == <<mode, sizeMode, fileCount, writeCrc, closed, generalPurposeField, checks>>
history == <<hdr, appended, nAppends, fresh>>
vars == <<hostLE, exists, stream, pc, mode, sizeMode, fileCount, writeCrc, closed,
          generalPurposeField, checks, last, prev, hdr, appended, nAppends, fresh, ops>>

----
\* Bounds of the model.
MaxOps == 4
MaxHeaders == 1
MaxNameLen == 257

\* helpers.h++
BYTE == 1
WORD == 2
DWORD == 4
QWORD == 8

\* static.h++
STATIC_FLAG_WRITE_CRC32 == 16
STATIC_FLAG_DISABLE_CHECKS == 8
STATIC_MAGIC == <<145, 222, 238, 156, 128, 92, 35, 230>>
SizeMode16 == 0
SizeMode32 == 1
SizeMode64 == 2
Modes == {"ModeRead", "ModeAppend", "ModeCreate"}
SizeModes == {SizeMode16, SizeMode32, SizeMode64}

\* What std::istream::get returns at end of file.
EOF == -1

----
\* Tuples of bytes.
Min(a, b) == IF a < b THEN a ELSE b
Max(a, b) == IF a < b THEN b ELSE a
Zeros(n) == [i \in 1..n |-> 0]
Fill(n, b) == [i \in 1..n |-> b]
Reverse(s) == [i \in 1..Len(s) |-> s[Len(s) + 1 - i]]

\* conv<T>: .data read from .value, and .value read from .data.
ConvData(value) == IF hostLE THEN Reverse(value) ELSE value
ConvValue(data) == IF hostLE THEN Reverse(data) ELSE data
\* A conv<T>{} of n bytes after a read that delivered only `got`.
Image(got, n) == got \o Zeros(n - Len(got))
\* Integral conversion of an unsigned value to n >= Len(v) bytes.
Widen(v, n) == Zeros(n - Len(v)) \o v
Zero32 == Zeros(DWORD)
Zero64 == Zeros(QWORD)

----
\* The std::fstream.  One position serves get and put (std::basic_filebuf);
\* `fail` stands for failbit, and for a stream that is not open.
seek(s, off) == IF s.fail THEN s ELSE [s EXCEPT !.pos = off]

\* The bytes read(buf, n) delivers.
Avail(s, n) ==
    IF s.fail THEN <<>>
    ELSE SubSeq(s.data, s.pos + 1, Min(s.pos + n, Len(s.data)))

\* The stream after read(buf, n): a short read sets eofbit and failbit.
AfterRead(s, n) ==
    IF s.fail THEN s
    ELSE [s EXCEPT !.pos = s.pos + Len(Avail(s, n)), !.fail = Len(Avail(s, n)) < n]

\* get(): the next byte, or EOF.
Get(s) == IF Avail(s, 1) = <<>> THEN EOF ELSE Avail(s, 1)[1]
AfterGet(s) == AfterRead(s, 1)

\* write(buf, n) and put(c) at the position; a gap past the end reads as zeros.
Write(s, bytes) ==
    IF s.fail \/ bytes = <<>> THEN s
    ELSE LET n == Len(bytes)
             old == IF s.pos > Len(s.data)
                    THEN s.data \o Zeros(s.pos - Len(s.data))
                    ELSE s.data
             newLen == Max(Len(old), s.pos + n)
         IN  [s EXCEPT !.data = [i \in 1..newLen |->
                                    IF i > s.pos /\ i <= s.pos + n
                                    THEN bytes[i - s.pos] ELSE old[i]],
                       !.pos = s.pos + n]
Put(s, c) == Write(s, <<c % 256>>)

\* std::fstream(path, binary | in | out): opens an existing file only.
Open(data) == [data |-> data, pos |-> 0, fail |-> ~exists]

----
\* Inputs.
\* A signature block as a file holds it (static.cpp writeSignature's layout).
SigImage(gp, fc, sm, wc) == STATIC_MAGIC \o ConvData(gp) \o ConvData(fc) \o <<sm, wc>>
\* Files the path may name: empty, an archive whose count field has a non-zero
\* high half, and eight bytes that differ from the magic in the last one.
InitialFiles ==
    { <<>>,
      SigImage(<<1, 2, 3, 4>>, <<0, 0, 0, 7, 0, 0, 0, 5>>, SizeMode32, 0),
      <<145, 222, 238, 156, 128, 92, 35, 0>> }
\* Values an uninitialised uint32_t member may hold.
GPValues == {Zero32, <<1, 2, 3, 4>>}
\* Bytes an uninitialised or out-of-bounds location may hold.
GarbageBytes == {0, 127}
FlagBytes == {0, STATIC_FLAG_DISABLE_CHECKS, STATIC_FLAG_WRITE_CRC32, 255}
AppendNames == {<<97>>}
Payloads == {<<>>, <<104, 105>>}
\* Entry names: empty, short, with an embedded NUL, and around the one-byte limit.
HeaderNames ==
    {<<>>, <<97>>, <<97, 0, 98>>} \cup {Fill(n, 120) : n \in 255..MaxNameLen}
Crcs == {Zero32, <<222, 173, 190, 239>>}
\* Data sizes that fit 16 bits, 32 bits and 64 bits only.
DataSizes ==
    { Zero64, <<0, 0, 0, 0, 0, 0, 1, 2>>, <<0, 0, 0, 0, 1, 2, 3, 4>>,
      <<1, 2, 3, 4, 5, 6, 7, 8>> }

NoHdr == [start |-> -1, n |-> 0]
NoAppend == [name |-> <<>>, made |-> FALSE]
NoCall == [op |-> "none", args |-> <<>>, pre |-> <<>>, ret |-> <<>>, err |-> "None"]

\* The handle and its stream as a call finds them.
Snapshot ==
    [stream |-> stream, mode |-> mode, sizeMode |-> sizeMode, fileCount |-> fileCount,
     writeCrc |-> writeCrc, closed |-> closed,
     generalPurposeField |-> generalPurposeField, checks |-> checks]

\* A call of `op` is made and returns `ret`, or fails with `err`.
Called(op, args, ret, err) ==
    /\ ops < MaxOps
    /\ last' = [op |-> op, args |-> args, pre |-> Snapshot, ret |-> ret, err |-> err]
    /\ prev' = last.op
    /\ ops' = ops + 1

Init ==
    /\ hostLE \in BOOLEAN
    /\ exists \in BOOLEAN
    \* the file; no stream is open on it yet
    /\ \E data \in InitialFiles :
          stream = [data |-> IF exists THEN data ELSE <<>>, pos |-> 0, fail |-> TRUE]
    /\ pc = "new"
    /\ mode = "ModeRead"
    /\ sizeMode = SizeMode64
    /\ fileCount = Zero64
    /\ writeCrc = TRUE
    /\ closed = FALSE
    /\ generalPurposeField = Zero32
    /\ checks = FALSE
    /\ last = NoCall
    /\ prev = "none"
    /\ hdr = NoHdr
    /\ appended = NoAppend
    /\ nAppends = 0
    /\ fresh = FALSE
    /\ ops = 0

----
\* Construction.

\* Flags flags_{flags}: aggregate initialisation of the union's first member f,
\* whose first bit-field takes the byte (cut to one bit); the others are zero.
FlagsInit(flags) ==
    [verbose |-> flags % 2, onlyNames |-> 0, ignoreErrors |-> 0, writeCrc |-> 0,
     checks |-> 0]

\* A handle may be made when none lives on the storage: at the start, and
\* after close().
CanConstruct == pc = "new" \/ (pc = "open" /\ closed)

\* What construction in mode_ makes of the history of the archive.
Constructed(mode_) ==
    /\ pc' = "open"
    /\ stream' = Open(stream.data)
    /\ mode' = mode_
    /\ fileCount' = Zero64
    /\ closed' = FALSE
    /\ fresh' = IF mode_ = "ModeCreate" THEN TRUE ELSE fresh
    /\ nAppends' = IF mode_ = "ModeCreate" THEN 0 ELSE nAppends
    /\ appended' = NoAppend
    /\ hdr' = NoHdr
    /\ UNCHANGED <<hostLE, exists>>

\* StaticArchive(path), (path, mode), (path, mode, sizeMode): setup only;
\* generalPurposeField and checks are left uninitialised.
Construct ==
    /\ CanConstruct
    /\ \E mode_ \in Modes, sizeMode_ \in SizeModes, gp \in GPValues, c \in BOOLEAN :
          /\ Constructed(mode_)
          /\ sizeMode' = sizeMode_
          /\ writeCrc' = TRUE
          /\ generalPurposeField' = gp
          /\ checks' = c
          /\ Called("construct", [mode |-> mode_, sizeMode |-> sizeMode_], <<>>, "None")

\* StaticArchive(path | stream, mode, sizeMode, flags).
ConstructFlags ==
    /\ CanConstruct
    /\ \E mode_ \in Modes, sizeMode_ \in SizeModes, gp \in GPValues, flags \in FlagBytes :
          /\ Constructed(mode_)
          /\ sizeMode' = sizeMode_
          /\ checks' = (FlagsInit(flags).checks # 0)
          /\ writeCrc' = (FlagsInit(flags).writeCrc # 0)
          /\ generalPurposeField' = gp
          /\ Called("constructFlags",
                    [mode |-> mode_, sizeMode |-> sizeMode_, flags |-> flags], <<>>, "None")

----
\* The signature block (private methods, called on a live handle).

\* strncmp over unsigned chars from index i: it stops at the first difference,
\* at a NUL in both, or after n characters.
RECURSIVE strncmp(_, _, _, _)
strncmp(a, b, i, n) ==
    IF i > n THEN 0
    ELSE IF a[i] # b[i] THEN (IF a[i] < b[i] THEN -1 ELSE 1)
    ELSE IF a[i] = 0 THEN 0
    ELSE strncmp(a, b, i + 1, n)

\* checkSignature's result for the bytes the read left in `buffer`: the int
\* strncmp returns, converted to bool.
checkSignature(buffer) == strncmp(STATIC_MAGIC, buffer, 1, QWORD) # 0

CheckSignature ==
    /\ pc = "open"
    /\ LET s1 == seek(stream, 0)
           got == Avail(s1, QWORD)
       IN  /\ stream' = AfterRead(s1, QWORD)
           \* what a short read leaves of the uninitialised buffer is indeterminate
           /\ \E g \in GarbageBytes :
                 Called("checkSignature", <<>>,
                        checkSignature(got \o Fill(QWORD - Len(got), g)), "None")
    /\ fresh' = FALSE
    /\ UNCHANGED <<handle, pc, hostLE, exists, hdr, appended, nAppends>>

\* The stream writeSignature leaves: magic, generalPurposeField, fileCount,
\* sizeMode, writeCrc from offset 0.
writeSignature(s) ==
    Put(Put(Write(Write(Write(seek(s, 0), STATIC_MAGIC),
                        ConvData(generalPurposeField)),
                  ConvData(fileCount)),
            sizeMode),
        IF writeCrc THEN 1 ELSE 0)

WriteSignature ==
    /\ pc = "open"
    /\ stream' = writeSignature(stream)
    /\ Called("writeSignature", <<>>, <<>>, "None")
    /\ fresh' = FALSE
    /\ UNCHANGED <<handle, pc, hostLE, exists, hdr, appended, nAppends>>

\* The values fileCount may take in loadSignature.  The eight bytes of the count
\* are read into gp.data, which holds four, and fileCount is taken from fc, which
\* no read fills: zero, or, where fc lies right behind gp, the bytes that
\* overflowed gp.
LoadedFileCounts(got) ==
    IF Len(got) <= DWORD THEN {Zero64}
    ELSE {Zero64, ConvValue(Image(SubSeq(got, DWORD + 1, Len(got)), QWORD))}

LoadSignature ==
    /\ pc = "open"
    /\ LET s1 == seek(stream, QWORD)
           gp == Image(Avail(s1, DWORD), DWORD)
           s2 == AfterRead(s1, DWORD)
           fc == Avail(s2, QWORD)
           s3 == AfterRead(s2, QWORD)
           sm == Get(s3)
           s4 == AfterGet(s3)
           wc == Get(s4)
           s5 == AfterGet(s4)
       IN  \/ /\ stream' = s5
              /\ generalPurposeField' = ConvValue(gp)
              /\ fileCount' \in LoadedFileCounts(fc)
              /\ sizeMode' = sm
              /\ writeCrc' = (wc # 0)
              /\ pc' = pc
              /\ Called("loadSignature", <<>>, <<>>, "None")
           \* the overflow of gp.data hits the stack protector: the process aborts
           \/ /\ Len(fc) > DWORD
              /\ stream' = s3
              /\ generalPurposeField' = ConvValue(gp)
              /\ pc' = "aborted"
              /\ Called("loadSignature", <<>>, <<>>, "Aborted")
              /\ UNCHANGED <<fileCount, sizeMode, writeCrc>>
    /\ fresh' = FALSE
    /\ UNCHANGED <<mode, closed, checks, hostLE, exists, hdr, appended, nAppends>>

----
\* Accessors.
getFileCount == fileCount
getClosed == closed
getWriteCrc == writeCrc

\* getMaxFilesize with the 32-bit case returning the 16-bit maximum.
getMaxFilesize_Copied16 ==
    CASE sizeMode = SizeMode16 -> <<0, 0, 0, 0, 0, 0, 255, 255>>
      [] sizeMode = SizeMode32 -> <<0, 0, 0, 0, 0, 0, 255, 255>>
      [] sizeMode = SizeMode64 -> <<255, 255, 255, 255, 255, 255, 255, 255>>
      [] OTHER -> Zero64

getMaxFilesize ==
    CASE sizeMode = SizeMode16 -> <<0, 0, 0, 0, 0, 0, 255, 255>>
      [] sizeMode = SizeMode32 -> <<0, 0, 0, 0, 255, 255, 255, 255>>
      [] sizeMode = SizeMode64 -> <<255, 255, 255, 255, 255, 255, 255, 255>>
      [] OTHER -> Zero64

GetMaxFilesize ==
    /\ pc = "open"
    /\ Called("getMaxFilesize", <<>>, getMaxFilesize, "None")
    /\ UNCHANGED <<handle, stream, pc, hostLE, exists, history>>

----
\* append, both overloads: the bodies are empty.  Nothing is written and no
\* field changes; the function ends without a return statement, so the FileInfo
\* the caller receives is indeterminate.
IndeterminateInfos(payload) ==
    { [size |-> 0, crc |-> Zero32, dataOffset |-> 0],
      [size |-> Len(payload), crc |-> Zero32, dataOffset |-> Len(stream.data)] }

AppendEntry ==
    /\ pc = "open"
    /\ \E name \in AppendNames, payload \in Payloads :
          \E info \in IndeterminateInfos(payload) :
             /\ Called("append", [name |-> name, payload |-> payload], info, "None")
             /\ appended' = [name |-> name, made |-> TRUE, payload |-> payload,
                             info |-> info]
    /\ nAppends' = IF mode \in {"ModeAppend", "ModeCreate"} /\ ~closed
                   THEN nAppends + 1 ELSE nAppends
    /\ UNCHANGED <<handle, stream, pc, hostLE, exists, hdr, fresh>>

----
\* read, flush and close are declared in static.h++ and defined nowhere in the
\* sources; they follow the specification's section 4.5.

\* The external checksum, a pure function of the bytes.
RECURSIVE ByteSum(_)
ByteSum(bytes) == IF bytes = <<>> THEN 0 ELSE (bytes[1] + ByteSum(Tail(bytes))) % 256
Checksum(bytes) == <<0, 0, 0, ByteSum(bytes)>>

\* read(fileInfo, sink) of the FileInfo the last append returned.
Read ==
    /\ pc = "open"
    /\ appended.made
    /\ LET info == appended.info
           s1 == seek(stream, info.dataOffset)
           got == Avail(s1, info.size)
       IN  IF closed
           THEN /\ Called("read", info, <<>>, "ArchiveClosed")
                /\ UNCHANGED stream
           ELSE /\ stream' = AfterRead(s1, info.size)
                /\ Called("read", info, got,
                          IF Len(got) < info.size THEN "IOFailure"
                          ELSE IF checks /\ Checksum(got) # info.crc THEN "CrcMismatch"
                          ELSE "None")
    /\ UNCHANGED <<handle, pc, hostLE, exists, history>>

\* flush(): persist the signature block (a read-only handle has nothing to persist).
Flushed(s) == IF mode = "ModeRead" THEN s ELSE writeSignature(s)

Flush ==
    /\ pc = "open"
    /\ IF closed
       THEN /\ Called("flush", <<>>, <<>>, "ArchiveClosed")
            /\ UNCHANGED stream
       ELSE /\ stream' = Flushed(stream)
            /\ Called("flush", <<>>, <<>>, "None")
    /\ UNCHANGED <<handle, pc, hostLE, exists, history>>

\* close(): flush, then release the stream.
Close ==
    /\ pc = "open"
    /\ IF closed
       THEN /\ Called("close", <<>>, <<>>, "ArchiveClosed")
            /\ UNCHANGED <<stream, closed>>
       ELSE /\ stream' = [Flushed(stream) EXCEPT !.fail = TRUE]
            /\ closed' = TRUE
            /\ Called("close", <<>>, <<>>, "None")
    /\ UNCHANGED <<mode, sizeMode, fileCount, writeCrc, generalPurposeField, checks,
                   pc, hostLE, exists, history>>

----
\* Entry headers (private methods, called on a live handle).

\* The stream writeheader leaves when the name passes its check.
writeheader(s, name, crc, dataSize) ==
    Write(Write(Write(Put(s, Len(name)), name), ConvData(crc)), ConvData(dataSize))

Writeheader ==
    /\ pc = "open"
    /\ hdr.n < MaxHeaders
    /\ \E name \in HeaderNames, crc \in Crcs, dataSize \in DataSizes :
          IF Len(name) > 256
          THEN /\ Called("writeheader", [name |-> name, crc |-> crc, dataSize |-> dataSize],
                         <<>>, "InvalidNameSize")
               /\ UNCHANGED <<stream, hdr>>
          ELSE /\ stream' = writeheader(stream, name, crc, dataSize)
               /\ hdr' = [start |-> stream.pos, end |-> stream'.pos, n |-> hdr.n + 1,
                          name |-> name, crc |-> crc, dataSize |-> dataSize,
                          sizeMode |-> sizeMode]
               /\ Called("writeheader", [name |-> name, crc |-> crc, dataSize |-> dataSize],
                         <<>>, "None")
    /\ fresh' = FALSE
    /\ UNCHANGED <<handle, pc, hostLE, exists, appended, nAppends>>

\* The std::string made from a char*: the characters before the first NUL.
CString(chars) ==
    LET nuls == {i \in 1..Len(chars) : chars[i] = 0}
    IN  IF nuls = {} THEN chars
        ELSE SubSeq(chars, 1, (CHOOSE i \in nuls : \A j \in nuls : i <= j) - 1)

\* The bytes of the dataSize field readHeader consumes in each size mode.
DataSizeWidth(sm) ==
    CASE sm = SizeMode64 -> QWORD
      [] sm = SizeMode32 -> DWORD
      [] sm = SizeMode16 -> WORD
      [] OTHER -> 0

\* The dataSize readHeader returns, `got` being the bytes of the field read.
\* In the 16-bit case the value is taken before the read fills it.
readDataSize(sm, got, g) ==
    CASE sm = SizeMode64 -> ConvValue(Image(got, QWORD))
      [] sm = SizeMode32 -> Widen(ConvValue(Image(got, DWORD)), QWORD)
      [] sm = SizeMode16 -> Widen(ConvValue(Zeros(WORD)), QWORD)
      [] OTHER -> Fill(QWORD, g)

\* readHeader at the stream's position.  nameBuffer holds ns characters and no
\* terminator: the string made from it ends at its first NUL, or runs on into the
\* bytes behind the allocation (g, then a NUL; g = 0: a NUL at once).
ReadHeader ==
    /\ pc = "open"
    /\ LET ns == Get(stream) % 256
           s1 == AfterGet(stream)
           nameGot == Avail(s1, ns)
           s2 == AfterRead(s1, ns)
           crcGot == Avail(s2, DWORD)
           s3 == AfterRead(s2, DWORD)
           w == DataSizeWidth(sizeMode)
           dsGot == Avail(s3, w)
       IN  /\ stream' = AfterRead(s3, w)
           /\ \E g \in GarbageBytes :
                 Called("readHeader", <<>>,
                        [name |-> CString(nameGot \o Fill(ns - Len(nameGot), g) \o <<g, 0>>),
                         crc |-> ConvValue(Image(crcGot, DWORD)),
                         dataSize |-> readDataSize(sizeMode, dsGot, g)],
                        "None")
    /\ fresh' = FALSE
    /\ UNCHANGED <<handle, pc, hostLE, exists, history>>

\* The owner of the std::fstream given to the constructor positions it.
SeekOffsets == {0, QWORD + DWORD + QWORD + BYTE + BYTE} \cup {hdr.start}
CallerSeek ==
    /\ pc = "open"
    /\ \E off \in SeekOffsets \ {-1} :
          /\ stream' = seek(stream, off)
          /\ Called("seekg", off, <<>>, "None")
    /\ UNCHANGED <<handle, pc, hostLE, exists, history>>

----
\* The public interface: construction, append, read, flush, close, accessors.
Next ==
    \/ Construct
    \/ ConstructFlags
    \/ GetMaxFilesize
    \/ AppendEntry
    \/ Read
    \/ Flush
    \/ Close

Spec == Init /\ [][Next]_vars

\* The signature block's methods on a constructed handle, and the accessor of
\* the size mode they load.
SignatureNext ==
    \/ Construct
    \/ ConstructFlags
    \/ CheckSignature
    \/ LoadSignature
    \/ WriteSignature
    \/ GetMaxFilesize

SignatureSpec == Init /\ [][SignatureNext]_vars

\* The entry header's methods on a handle constructed over the caller's stream
\* with flags 0.
HeaderInit ==
    /\ hostLE \in BOOLEAN
    /\ exists = TRUE
    /\ pc = "open"
    /\ mode = "ModeCreate"
    /\ sizeMode \in SizeModes
    /\ fileCount = Zero64
    /\ writeCrc = (FlagsInit(0).writeCrc # 0)
    /\ checks = (FlagsInit(0).checks # 0)
    /\ closed = FALSE
    /\ generalPurposeField = Zero32
    /\ stream \in {Open(<<>>), Open(SigImage(Zero32, Zero64, sizeMode, 0))}
    /\ last = NoCall
    /\ prev = "none"
    /\ hdr = NoHdr
    /\ appended = NoAppend
    /\ nAppends = 0
    /\ fresh = FALSE
    /\ ops = 0

HeaderNext ==
    \/ Writeheader
    \/ ReadHeader
    \/ CallerSeek

HeaderSpec == HeaderInit /\ [][HeaderNext]_vars

----
\* Properties.

\* Lexicographic order of two values of the same width: a <= b as integers.
LessEq(a, b) ==
    \/ a = b
    \/ \E i \in 1..Len(a) : a[i] < b[i] /\ \A j \in 1..(i - 1) : a[j] = b[j]
\* A bit of a flags byte, by its mask.
Bit(flags, mask) == (flags \div mask) % 2 = 1
\* The largest value of n bytes, as a uint64_t.
AllOnes(n) == Widen(Fill(n, 255), QWORD)

\* C1: on a handle opened in Create or Append mode, append(name, payload) with a
\* name of 1..255 bytes followed by read of the FileInfo append returned delivers
\* exactly the payload.
C1_AppendThenReadIsPayload ==
    (/\ last.op = "read"
     /\ ~last.pre.closed
     /\ ~last.pre.stream.fail
     /\ last.pre.mode \in {"ModeAppend", "ModeCreate"}
     /\ Len(appended.name) \in 1..255)
    => (last.err = "None" /\ last.ret = appended.payload)

\* C2: writeSignature followed by loadSignature on the same stream leaves the
\* handle with the generalPurposeField, fileCount, sizeMode and writeCrc that were
\* written.
C2_SignatureRoundTrip ==
    (/\ last.op = "loadSignature"
     /\ prev = "writeSignature"
     /\ last.err = "None"
     /\ ~last.pre.stream.fail
     /\ last.pre.sizeMode \in SizeModes)
    => (/\ generalPurposeField = last.pre.generalPurposeField
        /\ fileCount = last.pre.fileCount
        /\ sizeMode = last.pre.sizeMode
        /\ writeCrc = last.pre.writeCrc)

\* C3: checkSignature reports valid (true) exactly when the first 8 bytes of the
\* stream equal the magic constant.
C3_CheckSignatureAcceptsMagic ==
    (/\ last.op = "checkSignature"
     /\ ~last.pre.stream.fail
     /\ Len(last.pre.stream.data) >= QWORD)
    => (last.ret <=> (SubSeq(last.pre.stream.data, 1, QWORD) = STATIC_MAGIC))

\* C4: writing an entry header with a name longer than 255 bytes fails with
\* NameTooLong (InvalidNameSizeException) before any byte is written: stream
\* contents, stream length and fileCount are as before the call.
C4_LongNameRejectedUnchanged ==
    (last.op = "writeheader" /\ ~last.pre.stream.fail /\ Len(last.args.name) > 255)
    => (/\ last.err = "InvalidNameSize"
        /\ stream.data = last.pre.stream.data
        /\ fileCount = last.pre.fileCount)

\* C5: in every size mode, for a name of 0..255 bytes and a dataSize not above
\* the mode's maximum, writeheader followed by readHeader from the header's start
\* returns the same name, crc and dataSize, and the header occupies
\* 1 + nameLength + 4 + (2, 4 or 8) bytes.
C5_HeaderRoundTrip ==
    (/\ last.op = "readHeader"
     /\ hdr.n > 0
     /\ ~last.pre.stream.fail
     /\ last.pre.stream.pos = hdr.start
     /\ sizeMode \in SizeModes
     /\ Len(hdr.name) <= 255
     /\ LessEq(hdr.dataSize, AllOnes(DataSizeWidth(sizeMode))))
    => (/\ last.ret = [name |-> hdr.name, crc |-> hdr.crc, dataSize |-> hdr.dataSize]
        /\ hdr.end - hdr.start = 1 + Len(hdr.name) + DWORD + DataSizeWidth(sizeMode))

\* C6: starting from a freshly created archive, after N successful appends
\* getFileCount() returns N, also after close() and reopening in Read or Append
\* mode, and the count stored at offset 12 of the signature block is N.
C6_FileCountCountsAppends ==
    /\ (pc = "open" /\ exists /\ fresh) => getFileCount = Widen(<<nAppends>>, QWORD)
    /\ (pc = "open" /\ exists /\ fresh /\ closed /\ Len(stream.data) >= QWORD + DWORD + QWORD)
       => SubSeq(stream.data, QWORD + DWORD + 1, QWORD + DWORD + QWORD)
            = ConvData(Widen(<<nAppends>>, QWORD))

\* C7: getMaxFilesize() returns the largest value the dataSize field holds in the
\* handle's size mode (0xFFFF, 0xFFFFFFFF, 0xFFFFFFFFFFFFFFFF) and changes nothing
\* of the handle or its stream.
C7_MaxFilesize ==
    last.op = "getMaxFilesize"
    => (/\ sizeMode \in SizeModes => last.ret = AllOnes(DataSizeWidth(sizeMode))
        /\ Snapshot = last.pre)

\* C7's case: the accessor has answered for the 32-bit mode.
C7_Witness ==
    /\ last.op = "getMaxFilesize"
    /\ sizeMode = SizeMode32
    /\ last.ret = <<0, 0, 0, 0, 255, 255, 255, 255>>

\* C8: close() on an open handle makes getClosed() true; on a closed handle
\* getClosed() stays true and append, read, flush and close fail with
\* ArchiveClosed without changing the archive.
C8_ClosedIsTerminal ==
    /\ (last.op = "close" /\ exists /\ ~last.pre.closed) => getClosed
    /\ (last.op \in {"append", "read", "flush", "close"} /\ exists /\ last.pre.closed)
       => (/\ getClosed
           /\ last.err = "ArchiveClosed"
           /\ stream.data = last.pre.stream.data
           /\ fileCount = last.pre.fileCount)

\* C9: on a handle whose mode is Read, writing the signature block and append
\* fail with ReadOnlyViolation and leave the stream bytes and fileCount unchanged.
C9_ReadModeNeverWrites ==
    (/\ last.op \in {"writeSignature", "append"}
     /\ ~last.pre.stream.fail
     /\ last.pre.mode = "ModeRead")
    => (/\ last.err = "ReadOnlyViolation"
        /\ stream.data = last.pre.stream.data
        /\ fileCount = last.pre.fileCount)

\* C10: for every flags byte given to a constructor, writeCrc is true exactly
\* when the STATIC_FLAG_WRITE_CRC32 bit is set, and checks are enabled exactly
\* when the STATIC_FLAG_DISABLE_CHECKS bit is clear.
C10_FlagDecoding ==
    last.op = "constructFlags"
    => (/\ getWriteCrc = Bit(last.args.flags, STATIC_FLAG_WRITE_CRC32)
        /\ checks = ~Bit(last.args.flags, STATIC_FLAG_DISABLE_CHECKS))

====
